---- MODULE Spec2Model ----
(***************************************************************************)
(* Session orchestration layer of the mediasoup signaling server           *)
(* (attachSignaling, src/unnamed/part_003): the room registry, the peer,   *)
(* producer and consumer tables, the socket.io request handlers, the       *)
(* /ingest HTTP handlers and the publisher-presence sweep.                 *)
(*                                                                         *)
(* A handler runs atomically up to its first `await`; the part after the   *)
(* await is a second action, so that other events interleave at every      *)
(* suspension point.  The routing capability (mediasoup router, transports,*)
(* producers, consumers) and socket.io are external: they are modelled by  *)
(* the handles they hand out and by the events the source registers        *)
(* listeners for.  Every event the source listens to may be emitted, each  *)
(* at most once per emitter.                                               *)
(***************************************************************************)
EXTENDS Integers, Sequences, FiniteSets, TLC

\* ---------------------------------------------------------------- bounds
MaxTransports == 2      \* transports the routing capability hands out
MaxProducers  == 2      \* producers the routing capability hands out
MaxConsumers  == 1      \* consumers the routing capability hands out
MaxJoins      == 2      \* joins of one socket to one room over the run
MaxTicks      == 4      \* clock ticks of TickMs the run covers
MaxTasks      == 2      \* async calls of the viewer page in flight at once
MaxStarts     == 2      \* runs of the viewer page's effect

Socks     == {"s1", "s2"}          \* socket.io connection ids
RoomIds   == {"lab", "r2"}         \* room ids clients name
PubIds    == {"bot1"}              \* publisher ids clients name
Labels    == {"cam1", "cam2"}
Paths     == {"front"}
Kinds     == {"audio", "video"}
RoleInputs == {"viewer", "publisher", "publisher-bot"}
Directions == {"send", "recv", "both"}
Caps      == {"ok", "bad"}         \* rtpCapabilities: compatible or not

\* ------------------------------------------------------ program constants
DEFAULT_ROOM     == "lab"
PUBLISHER_TTL_MS == 30000
SweepMs          == 10000
TickMs           == 10000   \* granularity of the modelled clock (a bound)

Undef == "undefined"    \* a payload field that is absent
Null  == "null"
NoSock == "none"        \* owner of an ingest-created producer / transport

\* cfg.rtc.mediaCodecs of config.js
cfgMediaCodecs ==
    << [kind |-> "audio", mimeType |-> "audio/opus"],
       [kind |-> "video", mimeType |-> "video/H264"],
       [kind |-> "video", mimeType |-> "video/VP8"] >>

\* codec configurations a deployment may start with: the shipped one, one
\* without H264, one with H264 only
CodecSets ==
    { cfgMediaCodecs,
      << [kind |-> "audio", mimeType |-> "audio/opus"],
         [kind |-> "video", mimeType |-> "video/VP8"] >>,
      << [kind |-> "video", mimeType |-> "video/H264"] >> }

RoomKeys == RoomIds \cup {Undef}   \* keys the registry Map can hold
TIds == 1..MaxTransports
PIds == 1..MaxProducers
CIds == 1..MaxConsumers

VARIABLES
    rooms,          \* registry keys in Map insertion order (rooms)
    peers,          \* peers[r]: socket id -> peer record (room.peers)
    roomProducers,  \* roomProducers[r]: entries in insertion order (room.producers)
    publishers,     \* publishers[r]: publisher id -> last seen (room.publishers)
    transports,     \* transport handles handed out, by id
    producers,      \* producer handles handed out, by id
    consumers,      \* consumer handles handed out, by id
    pending,        \* pending[s]: the handler of s suspended at an await
    ingest,         \* the /ingest/create request suspended at an await
    connected,      \* sockets that have not disconnected
    joined,         \* joined[s]: socket.io rooms s is in (socket.join)
    nextObj,        \* nextObj[r][s]: identity of the next peer record of s in r
    recvNew,        \* recvNew[s][p]: new-producer notifications s got for p
    recvClosed,     \* recvClosed[s][p]: producer-closed notifications s got
    closedEmits,    \* closedEmits[p]: producer-closed broadcasts made for p
    last,           \* the most recent acknowledgment / handler outcome
    now,            \* Date.now()
    mediaCodecs,    \* the codec list createWorker returned (mediaCodecs)
    snapshots,      \* snapshots[s]: producer ids the join acks of s listed
    announced,      \* announced[p]: payload of the new-producer emit for p
    viewer          \* the viewer page on socket s2: its refs and async calls

vars == <<rooms, peers, roomProducers, publishers, transports, producers,
          consumers, pending, ingest, connected, joined, nextObj, recvNew,
          recvClosed, closedEmits, last, now, mediaCodecs, snapshots,
          announced, viewer>>

\* the server's part of the state
server == <<rooms, peers, roomProducers, publishers, transports, producers,
            consumers, pending, ingest, connected, joined, nextObj, recvNew,
            recvClosed, closedEmits, last, now, mediaCodecs, snapshots,
            announced>>

\* ------------------------------------------------------------- helpers
Truthy(v) == v # Undef /\ v # Null
OrElse(a, b) == IF Truthy(a) THEN a ELSE b

SeqToSet(q) == {q[i] : i \in 1..Len(q)}
Has(q, x) == \E i \in 1..Len(q) : q[i] = x

MapSetAll(f, k, v) == [x \in (DOMAIN f) \cup {k} |-> v]
\* Map.set on a function with a growing domain
MapSet(f, k, v) == [x \in (DOMAIN f) \cup {k} |-> IF x = k THEN v ELSE f[x]]
MapDel(f, k) == [x \in (DOMAIN f) \ {k} |-> f[x]]
EmptyMap == [x \in {} |-> 0]

Idle == [op |-> "idle"]
\* the outcome of the most recent handler run: the answer it sent (its
\* acknowledgment or HTTP status), or the exception that escaped it
NoAck == [op |-> "none", res |-> "none"]
Ack(op, s, r, res, id, list) == [op |-> op, res |-> res]

\* handshake data of a connection (auth, query, headers)
clientMeta(s) ==
    IF s = "s1"
      THEN [roleHint |-> Undef, signal |-> "unknown", roomFromReferer |-> Null]
      ELSE [roleHint |-> Undef, signal |-> "browser", roomFromReferer |-> "r2"]

AnyRole(role) == TRUE
\* role === "publisher" || role === "publisher-bot"
IsPublisherRole(role) == role = "publisher" \/ role = "publisher-bot"

\* ------------------------------------------------------------ registry
ensureRoomAlwaysSets(roomId) == Append(rooms, roomId)
\* if (!rooms.has(roomId)) rooms.set(roomId, {...}); return rooms.get(roomId)
ensureRoom(roomId) ==
    IF Has(rooms, roomId) THEN rooms ELSE Append(rooms, roomId)

\* `null` where a peer record is expected
NoPeer ==
    [obj |-> 0, role |-> Null, transports |-> <<>>, producers |-> <<>>,
     consumers |-> <<>>, signal |-> Null, publisherId |-> Null]

getPeer(roomId, socketId) ==
    IF ~Has(rooms, roomId) THEN NoPeer
    ELSE IF socketId \in DOMAIN peers[roomId] THEN peers[roomId][socketId]
    ELSE NoPeer

\* sockets a broadcast to socket.io room r reaches
Members(r) == {s \in Socks : r \in joined[s]}

\* the listing both join and list-producers build from room.producers
ProducerEntry(e) ==
    [id |-> e.id,
     kind |-> IF Truthy(e.meta.kind) THEN e.meta.kind ELSE producers[e.id].kind,
     label |-> e.meta.label, path |-> e.meta.path]
ProducerListNewestFirst(r) ==
    [i \in 1..Len(roomProducers[r]) |->
        ProducerEntry(roomProducers[r][Len(roomProducers[r]) + 1 - i])]
\* [...room.producers.entries()].map(...): Map iteration is insertion order
ProducerList(r) ==
    [i \in 1..Len(roomProducers[r]) |-> ProducerEntry(roomProducers[r][i])]

JoinSnapshotFirstOnly(r) ==
    [i \in 1..(IF Len(roomProducers[r]) = 0 THEN 0 ELSE 1) |->
        [producerId |-> roomProducers[r][i].id,
         kind |-> producers[roomProducers[r][i].id].kind,
         label |-> roomProducers[r][i].meta.label,
         path |-> roomProducers[r][i].meta.path]]
\* the `producers` list of the join acknowledgment
JoinSnapshot(r) ==
    [i \in 1..Len(roomProducers[r]) |->
        [producerId |-> roomProducers[r][i].id,
         kind |-> ProducerEntry(roomProducers[r][i]).kind,
         label |-> roomProducers[r][i].meta.label,
         path |-> roomProducers[r][i].meta.path]]

TableIds(r) == {roomProducers[r][i].id : i \in 1..Len(roomProducers[r])}

\* no new-producer payload; a key the payload lacks reads as undefined
NoMsg ==
    [producerId |-> 0, kind |-> Undef, label |-> Undef, path |-> Undef,
     roleHint |-> Undef, signal |-> Undef, roomFromReferer |-> Undef]

\* no async call in this slot
NoTask == [fn |-> "idle", at |-> "none", pid |-> 0, list |-> <<>>,
           start |-> FALSE]

\* everything but the codec configuration
InitState ==
    /\ rooms = <<>>
    /\ peers = [r \in RoomKeys |-> EmptyMap]
    /\ roomProducers = [r \in RoomKeys |-> <<>>]
    /\ publishers = [r \in RoomKeys |-> EmptyMap]
    /\ transports = <<>>
    /\ producers = <<>>
    /\ consumers = <<>>
    /\ pending = [s \in Socks |-> Idle]
    /\ ingest = Idle
    /\ connected = Socks
    /\ joined = [s \in Socks |-> {}]
    /\ nextObj = [r \in RoomKeys |-> [s \in Socks |-> 1]]
    /\ recvNew = [s \in Socks |-> [p \in PIds |-> 0]]
    /\ recvClosed = [s \in Socks |-> [p \in PIds |-> 0]]
    /\ closedEmits = [p \in PIds |-> 0]
    /\ last = NoAck
    /\ now = 0
    /\ snapshots = [s \in Socks |-> {}]
    /\ announced = [p \in PIds |-> NoMsg]
    /\ viewer = [starts |-> 0, listeners |-> 0,
                 tasks |-> [k \in 1..MaxTasks |-> NoTask],
                 consumersRef |-> {},
                 made |-> [p \in PIds |-> 0],
                 handled |-> [p \in PIds |-> 0]]

\* the server as shipped: config.js lists opus, H264 and VP8
Init == InitState /\ mediaCodecs = cfgMediaCodecs

\* the server started with any of the codec configurations
InitCodecs == InitState /\ mediaCodecs \in CodecSets

\* ---------------------------------------------------------------- join
NewPeer(obj, role, signal, publisherId) ==
    [obj |-> obj, role |-> role, transports |-> <<>>, producers |-> <<>>,
     consumers |-> <<>>, signal |-> signal, publisherId |-> publisherId]

Join(s, rq, roleIn, id) ==
    LET meta == clientMeta(s)
        roomId == OrElse(rq, OrElse(meta.roomFromReferer, DEFAULT_ROOM))
        role == OrElse(roleIn, OrElse(meta.roleHint, "viewer"))
        publisherId == IF IsPublisherRole(role) THEN id ELSE Null
    IN  /\ s \in connected
        /\ nextObj[roomId][s] <= MaxJoins
        /\ rooms' = ensureRoom(roomId)
        /\ peers' = [peers EXCEPT ![roomId] =
                        MapSet(@, s, NewPeer(nextObj[roomId][s], role, meta.signal,
                                             publisherId))]
        /\ nextObj' = [nextObj EXCEPT ![roomId][s] = @ + 1]
        /\ joined' = [joined EXCEPT ![s] = @ \cup {roomId}]
        /\ publishers' =
              IF IsPublisherRole(role) /\ Truthy(id)
                THEN [publishers EXCEPT ![roomId] = MapSet(@, id, now)]
                ELSE publishers
        /\ snapshots' = [snapshots EXCEPT ![s] =
              @ \cup {JoinSnapshot(roomId)[i].producerId :
                         i \in 1..Len(JoinSnapshot(roomId))}]
        /\ last' = Ack("join", s, roomId, "ok", 0, JoinSnapshot(roomId))
        /\ UNCHANGED <<viewer, announced, mediaCodecs, roomProducers, transports, producers, consumers, pending,
                       ingest, connected, recvNew, recvClosed, closedEmits, now>>

\* ---------------------------------------------------------- disconnect
\* cleanupPeer is called by the disconnect handler and is declared nowhere
\* in the module (no function, no import): evaluating the call throws a
\* ReferenceError, which nothing catches.  Map.forEach calls it for the
\* first room; with an empty registry it is never evaluated.
cleanupPeer(room, socketId) == "ReferenceError"

\* socket.io empties the socket's rooms before it emits `disconnect`.
Disconnect(s) ==
    /\ s \in connected
    /\ connected' = connected \ {s}
    /\ joined' = [joined EXCEPT ![s] = {}]
    /\ last' = IF Len(rooms) = 0
                 THEN Ack("disconnect", s, Undef, "ok", 0, <<>>)
                 ELSE Ack("disconnect", s, rooms[1],
                          cleanupPeer(rooms[1], s), 0, <<>>)
    /\ UNCHANGED <<viewer, announced, mediaCodecs, snapshots, rooms, peers, roomProducers, publishers, transports,
                   producers, consumers, pending, ingest, nextObj, recvNew,
                   recvClosed, closedEmits, now>>

\* ---------------------------------------------------- create-transport
NewTransport(type, s, roomId, obj, direction) ==
    [type |-> type, sock |-> s, room |-> roomId, peerObj |-> obj,
     direction |-> direction, closed |-> FALSE, connected |-> FALSE,
     tuple |-> FALSE, rtcpTuple |-> FALSE]

AnyDirection(direction) == TRUE
\* ["send", "recv"].includes(direction)
ValidDirection(direction) == direction \in {"send", "recv"}

\* up to `await createWebRtcTransport(room.router)`
CreateTransportBegin(s, rq, direction) ==
    LET roomId == OrElse(rq, DEFAULT_ROOM) IN
    /\ s \in connected
    /\ pending[s].op = "idle"
    /\ rooms' = ensureRoom(roomId)
    /\ IF ~ValidDirection(direction)
         THEN /\ last' = Ack("create-transport", s, roomId,
                             "invalid direction", 0, <<>>)
              /\ UNCHANGED pending
         ELSE /\ pending' = [pending EXCEPT ![s] =
                    [op |-> "create-transport", room |-> roomId,
                     direction |-> direction]]
              /\ UNCHANGED last
    /\ UNCHANGED <<viewer, announced, mediaCodecs, snapshots, peers, roomProducers, publishers, transports, producers,
                   consumers, ingest, connected, joined, nextObj, recvNew,
                   recvClosed, closedEmits, now>>

\* the router refuses the allocation: safeSocket answers with the error
CreateTransportFail(s) ==
    /\ pending[s].op = "create-transport"
    /\ pending' = [pending EXCEPT ![s] = Idle]
    /\ last' = Ack("create-transport", s, pending[s].room, "error", 0, <<>>)
    /\ UNCHANGED <<viewer, announced, mediaCodecs, snapshots, rooms, peers, roomProducers, publishers, transports,
                   producers, consumers, ingest, connected, joined, nextObj,
                   recvNew, recvClosed, closedEmits, now>>

\* the router hands out the transport and the handler resumes
CreateTransportDone(s) ==
    LET roomId == pending[s].room
        peer == getPeer(roomId, s)
        tid == Len(transports) + 1
    IN  /\ pending[s].op = "create-transport"
        /\ Len(transports) < MaxTransports
        /\ pending' = [pending EXCEPT ![s] = Idle]
        /\ IF peer = NoPeer
             THEN \* peer.transports of null: TypeError, caught by safeSocket
                  /\ transports' = Append(transports,
                        NewTransport("webrtc", s, roomId, 0,
                                     pending[s].direction))
                  /\ last' = Ack("create-transport", s, roomId, "TypeError",
                                 0, <<>>)
                  /\ UNCHANGED peers
             ELSE /\ transports' = Append(transports,
                        NewTransport("webrtc", s, roomId, peer.obj,
                                     pending[s].direction))
                  /\ peers' = [peers EXCEPT ![roomId][s].transports =
                                  Append(@, tid)]
                  /\ last' = Ack("create-transport", s, roomId, "ok", tid,
                                 <<>>)
        /\ UNCHANGED <<viewer, announced, mediaCodecs, snapshots, rooms, roomProducers, publishers, producers,
                       consumers, ingest, connected, joined, nextObj, recvNew,
                       recvClosed, closedEmits, now>>

\* ---------------------------------------------- producer close handling
\* onClose of the produce handler and of /ingest/create, run n[p] times for
\* producer p: room.producers.delete(producer.id), then
\* io.to(roomId).emit("producer-closed", ...), with no guard between calls.
onCloseTableKeepsEntry(n) == roomProducers
onCloseTable(n) ==
    [r \in RoomKeys |->
        SelectSeq(roomProducers[r], LAMBDA e : n[e.id] = 0)]
onCloseRecvNone(n) == recvClosed
onCloseRecv(n) ==
    [s \in Socks |-> [p \in PIds |->
        IF p <= Len(producers) /\ s \in Members(producers[p].room)
          THEN recvClosed[s][p] + n[p] ELSE recvClosed[s][p]]]
onCloseEmits(n) == [p \in PIds |-> closedEmits[p] + n[p]]

\* listeners a closing transport t runs for producer p: the producer's
\* `transportclose` (both handlers) and, for an ingest producer, the plain
\* transport's own `close`
TransportCloseCalls(t, p) ==
    IF p > Len(producers) \/ producers[p].transport # t THEN 0
    ELSE (IF producers[p].tcloseFired THEN 0 ELSE 1)
         + (IF transports[t].type = "plain" THEN 1 ELSE 0)

RemoveTransportKeeps(list, t) == list
\* peer.transports.filter((t) => t.id !== transport.id)
RemoveTransport(list, t) == SelectSeq(list, LAMBDA x : x # t)

\* transport.close(): by the dtlsstatechange listener (closed / failed) or
\* by the routing capability.  Runs the transport's `close` listener (the
\* peer's list drops it), closes its producers and consumers.
TransportClose(t) ==
    LET tr == transports[t]
        n == [p \in PIds |-> TransportCloseCalls(t, p)]
        live == tr.type = "webrtc" /\ tr.peerObj # 0
                  /\ tr.sock \in DOMAIN peers[tr.room]
                  /\ peers[tr.room][tr.sock].obj = tr.peerObj
    IN  /\ t \in 1..Len(transports)
        /\ ~tr.closed
        /\ transports' = [transports EXCEPT ![t].closed = TRUE]
        /\ peers' = IF live
                      THEN [peers EXCEPT ![tr.room][tr.sock].transports =
                              RemoveTransport(@, t)]
                      ELSE peers
        /\ producers' = [p \in 1..Len(producers) |->
                            IF producers[p].transport = t
                              THEN [producers[p] EXCEPT !.tcloseFired = TRUE]
                              ELSE producers[p]]
        /\ consumers' = [c \in 1..Len(consumers) |->
                            IF consumers[c].transport = t
                              THEN [consumers[c] EXCEPT !.closed = TRUE]
                              ELSE consumers[c]]
        /\ roomProducers' = onCloseTable(n)
        /\ recvClosed' = onCloseRecv(n)
        /\ closedEmits' = onCloseEmits(n)
        /\ last' = Ack("transport-close", tr.sock, tr.room, "event", t, <<>>)
        /\ UNCHANGED <<viewer, announced, mediaCodecs, snapshots, rooms, publishers, pending, ingest, connected, joined,
                       nextObj, recvNew, now>>

\* the producer's own `close` event
ProducerClose(p) ==
    LET n == [q \in PIds |-> IF q = p THEN 1 ELSE 0] IN
    /\ p \in 1..Len(producers)
    /\ ~producers[p].closeFired
    /\ producers' = [producers EXCEPT ![p].closeFired = TRUE]
    /\ consumers' = [c \in 1..Len(consumers) |->
                        IF consumers[c].producer = p
                          THEN [consumers[c] EXCEPT !.closed = TRUE]
                          ELSE consumers[c]]
    /\ roomProducers' = onCloseTable(n)
    /\ recvClosed' = onCloseRecv(n)
    /\ closedEmits' = onCloseEmits(n)
    /\ last' = Ack("producer-close", producers[p].sock, producers[p].room,
                   "event", p, <<>>)
    /\ UNCHANGED <<viewer, announced, mediaCodecs, snapshots, rooms, peers, publishers, transports, pending, ingest,
                   connected, joined, nextObj, recvNew, now>>

\* -------------------------------------------------------------- produce
NewProducer(origin, t, kind, roomId, s) ==
    [origin |-> origin, transport |-> t, kind |-> kind, room |-> roomId,
     sock |-> s, closeFired |-> FALSE, tcloseFired |-> FALSE]

\* a producer is closed once either of its close signals has fired
ProducerClosed(p) == producers[p].closeFired \/ producers[p].tcloseFired

\* up to `await transport.produce({ kind, rtpParameters })`
ProduceBegin(s, rq, transportId, kind, label, path) ==
    LET roomId == OrElse(rq, DEFAULT_ROOM)
        peer == getPeer(roomId, s)
    IN  /\ s \in connected
        /\ pending[s].op = "idle"
        /\ rooms' = ensureRoom(roomId)
        /\ IF peer = NoPeer
             THEN /\ last' = Ack("produce", s, roomId, "peer not found", 0,
                                 <<>>)
                  /\ UNCHANGED pending
             ELSE IF ~Has(peer.transports, transportId)
             THEN /\ last' = Ack("produce", s, roomId, "transport not found",
                                 0, <<>>)
                  /\ UNCHANGED pending
             ELSE /\ pending' = [pending EXCEPT ![s] =
                        [op |-> "produce", room |-> roomId,
                         transport |-> transportId, kind |-> kind,
                         label |-> label, path |-> path,
                         peerObj |-> peer.obj]]
                  /\ UNCHANGED last
        /\ UNCHANGED <<viewer, announced, mediaCodecs, snapshots, peers, roomProducers, publishers, transports,
                       producers, consumers, ingest, connected, joined,
                       nextObj, recvNew, recvClosed, closedEmits, now>>

\* transport.produce rejects (the transport closed meanwhile): safeSocket
\* answers with the error
ProduceFail(s) ==
    /\ pending[s].op = "produce"
    /\ transports[pending[s].transport].closed
    /\ pending' = [pending EXCEPT ![s] = Idle]
    /\ last' = Ack("produce", s, pending[s].room, "error", 0, <<>>)
    /\ UNCHANGED <<viewer, announced, mediaCodecs, snapshots, rooms, peers, roomProducers, publishers, transports,
                   producers, consumers, ingest, connected, joined, nextObj,
                   recvNew, recvClosed, closedEmits, now>>

NewProducerRecipientsNone(s, roomId) == {}
NewProducerRecipientsAll(s, roomId) == Socks
\* recipients of socket.to(roomId).emit: the room without the sender
NewProducerRecipients(s, roomId) == Members(roomId) \ {s}

ProduceMetaSwapped(s, kind, label, path) ==
    [kind |-> kind, label |-> path, path |-> label, ownerSocketId |-> s]
\* what the produce handler stores: metaObj
ProduceMeta(s, kind, label, path) ==
    [kind |-> kind, label |-> label, path |-> path, ownerSocketId |-> s]

\* { producerId: producer.id, kind, ...meta }: `meta` is the connection's
\* clientMeta(socket), not metaObj, so no label and no path key is sent
NewProducerMsg(s, pid, kind, label, path) ==
    [producerId |-> pid, kind |-> kind, label |-> Undef, path |-> Undef,
     roleHint |-> clientMeta(s).roleHint, signal |-> clientMeta(s).signal,
     roomFromReferer |-> clientMeta(s).roomFromReferer]

\* the producer exists and the handler resumes: registration, close
\* listeners, new-producer broadcast, acknowledgment
ProduceDone(s) ==
    LET rq == pending[s]
        roomId == rq.room
        pid == Len(producers) + 1
        live == s \in DOMAIN peers[roomId]
                  /\ peers[roomId][s].obj = rq.peerObj
    IN  /\ rq.op = "produce"
        /\ ~transports[rq.transport].closed
        /\ Len(producers) < MaxProducers
        /\ pending' = [pending EXCEPT ![s] = Idle]
        /\ producers' = Append(producers,
              NewProducer("produce", rq.transport, rq.kind, roomId, s))
        /\ peers' = IF live
                      THEN [peers EXCEPT ![roomId][s].producers =
                              Append(@, pid)]
                      ELSE peers
        /\ roomProducers' = [roomProducers EXCEPT ![roomId] =
              Append(@, [id |-> pid,
                         meta |-> ProduceMeta(s, rq.kind, rq.label, rq.path)])]
        /\ recvNew' = [x \in Socks |-> [p \in PIds |->
              IF p = pid /\ x \in NewProducerRecipients(s, roomId)
                THEN recvNew[x][p] + 1 ELSE recvNew[x][p]]]
        /\ announced' = [announced EXCEPT ![pid] =
              NewProducerMsg(s, pid, rq.kind, rq.label, rq.path)]
        /\ last' = Ack("produce", s, roomId, "ok", pid, <<>>)
        /\ UNCHANGED <<viewer, mediaCodecs, snapshots, rooms, publishers, transports, consumers, ingest,
                       connected, joined, nextObj, recvClosed, closedEmits,
                       now>>

\* -------------------------------------------------------------- consume
\* router.canConsume({ producerId, rtpCapabilities }): the router is shared
\* by all rooms; it knows every producer that is not closed
canConsume(producerId, rtpCapabilities) ==
    /\ producerId \in 1..Len(producers)
    /\ ~ProducerClosed(producerId)
    /\ rtpCapabilities = "ok"

NewConsumerPlaying(t, p, s, roomId) ==
    [transport |-> t, producer |-> p, sock |-> s, room |-> roomId,
     paused |-> FALSE, closed |-> FALSE]
\* transport.consume({ producerId, rtpCapabilities, paused: true })
NewConsumer(t, p, s, roomId) ==
    [transport |-> t, producer |-> p, sock |-> s, room |-> roomId,
     paused |-> TRUE, closed |-> FALSE]

\* the consume handler up to `await transport.consume(...)`, given the answer
\* `can` of router.canConsume; registered with socket.on, so a TypeError
\* (no peer record, no such transport) escapes unanswered
ConsumeRequest(s, rq, transportId, producerId, can) ==
    /\ s \in connected
    /\ pending[s].op = "idle"
    /\ rooms' = ensureRoom(rq)
    /\ IF ~can
         THEN /\ last' = Ack("consume", s, rq, "cannot consume", 0, <<>>)
              /\ UNCHANGED pending
         ELSE IF s \notin DOMAIN peers[rq]
         THEN /\ last' = Ack("consume", s, rq, "uncaught TypeError", 0, <<>>)
              /\ UNCHANGED pending
         ELSE IF ~Has(peers[rq][s].transports, transportId)
         THEN /\ last' = Ack("consume", s, rq, "uncaught TypeError", 0, <<>>)
              /\ UNCHANGED pending
         ELSE /\ pending' = [pending EXCEPT ![s] =
                    [op |-> "consume", room |-> rq,
                     transport |-> transportId, producer |-> producerId,
                     peerObj |-> peers[rq][s].obj]]
              /\ UNCHANGED last
    /\ UNCHANGED <<viewer, announced, mediaCodecs, snapshots, peers, roomProducers, publishers, transports, producers,
                   consumers, ingest, connected, joined, nextObj, recvNew,
                   recvClosed, closedEmits, now>>

ConsumeBeginAnyCaps(s, rq, transportId, producerId, rtpCapabilities) ==
    ConsumeRequest(s, rq, transportId, producerId,
                   canConsume(producerId, "ok"))
ConsumeBegin(s, rq, transportId, producerId, rtpCapabilities) ==
    ConsumeRequest(s, rq, transportId, producerId,
                   canConsume(producerId, rtpCapabilities))

\* transport.consume rejects: the transport or the producer closed meanwhile
ConsumeFail(s) ==
    /\ pending[s].op = "consume"
    /\ \/ transports[pending[s].transport].closed
       \/ ProducerClosed(pending[s].producer)
    /\ pending' = [pending EXCEPT ![s] = Idle]
    /\ last' = Ack("consume", s, pending[s].room, "uncaught rejection", 0,
                   <<>>)
    /\ UNCHANGED <<viewer, announced, mediaCodecs, snapshots, rooms, peers, roomProducers, publishers, transports,
                   producers, consumers, ingest, connected, joined, nextObj,
                   recvNew, recvClosed, closedEmits, now>>

\* the consumer exists (created with paused: true) and the handler resumes
ConsumeDone(s) ==
    LET rq == pending[s]
        cid == Len(consumers) + 1
        live == s \in DOMAIN peers[rq.room]
                  /\ peers[rq.room][s].obj = rq.peerObj
    IN  /\ rq.op = "consume"
        /\ ~transports[rq.transport].closed
        /\ ~ProducerClosed(rq.producer)
        /\ Len(consumers) < MaxConsumers
        /\ pending' = [pending EXCEPT ![s] = Idle]
        /\ consumers' = Append(consumers,
              NewConsumer(rq.transport, rq.producer, s, rq.room))
        /\ peers' = IF live
                      THEN [peers EXCEPT ![rq.room][s].consumers =
                              Append(@, cid)]
                      ELSE peers
        /\ last' = Ack("consume", s, rq.room, "ok", cid, <<>>)
        /\ UNCHANGED <<viewer, announced, mediaCodecs, snapshots, rooms, roomProducers, publishers, transports,
                       producers, ingest, connected, joined, nextObj, recvNew,
                       recvClosed, closedEmits, now>>

\* --------------------------------------------------------------- resume
\* [...rooms.values()].flatMap(r => [...r.peers]).find(([id]) => id === socket.id):
\* the record of the socket in the first room, in registry order, that has one
FirstRoomOf(s) ==
    LET idx == {i \in 1..Len(rooms) : s \in DOMAIN peers[rooms[i]]} IN
    IF idx = {} THEN Null
    ELSE rooms[CHOOSE i \in idx : \A j \in idx : i <= j]

AnyConsumer(peer, consumerId) == consumerId \in 1..Len(consumers)
\* peer[1].consumers.find((c) => c.id === consumerId)
FindConsumer(peer, consumerId) == Has(peer.consumers, consumerId)

Resume(s, consumerId) ==
    LET r == FirstRoomOf(s) IN
    /\ s \in connected
    /\ IF r = Null
         THEN /\ last' = Ack("resume", s, Undef, "no peer", consumerId, <<>>)
              /\ UNCHANGED consumers
         ELSE IF ~FindConsumer(peers[r][s], consumerId)
         THEN /\ last' = Ack("resume", s, r, "no consumer", consumerId, <<>>)
              /\ UNCHANGED consumers
         ELSE IF consumers[consumerId].closed
         THEN /\ last' = Ack("resume", s, r, "uncaught rejection",
                             consumerId, <<>>)
              /\ UNCHANGED consumers
         ELSE /\ consumers' = [consumers EXCEPT ![consumerId].paused = FALSE]
              /\ last' = Ack("resume", s, r, "resumed", consumerId, <<>>)
    /\ UNCHANGED <<viewer, announced, mediaCodecs, snapshots, rooms, peers, roomProducers, publishers, transports,
                   producers, pending, ingest, connected, joined, nextObj,
                   recvNew, recvClosed, closedEmits, now>>

\* ------------------------------------- list-producers, get-producer-info
ListProducers(s, rq) ==
    /\ s \in connected
    /\ rooms' = ensureRoom(rq)
    /\ last' = Ack("list-producers", s, rq, "ok", 0, ProducerList(rq))
    /\ UNCHANGED <<viewer, announced, mediaCodecs, snapshots, peers, roomProducers, publishers, transports, producers,
                   consumers, pending, ingest, connected, joined, nextObj,
                   recvNew, recvClosed, closedEmits, now>>

\* { id: producerId, ...entry.meta, kind: entry.producer.kind } or null
ProducerInfo(r, producerId) ==
    LET hit == SelectSeq(roomProducers[r], LAMBDA e : e.id = producerId) IN
    IF Len(hit) = 0 THEN <<>>
    ELSE << [id |-> producerId, kind |-> producers[producerId].kind,
             label |-> hit[1].meta.label, path |-> hit[1].meta.path,
             ownerSocketId |-> hit[1].meta.ownerSocketId] >>

GetProducerInfo(s, rq, producerId) ==
    /\ s \in connected
    /\ rooms' = ensureRoom(rq)
    /\ last' = Ack("get-producer-info", s, rq, "ok", producerId,
                   ProducerInfo(rq, producerId))
    /\ UNCHANGED <<viewer, announced, mediaCodecs, snapshots, peers, roomProducers, publishers, transports, producers,
                   consumers, pending, ingest, connected, joined, nextObj,
                   recvNew, recvClosed, closedEmits, now>>

\* --------------------------------------------- start-camera, stop-camera
StartCamera(s, rq) ==
    /\ s \in connected
    /\ rooms' = ensureRoom(OrElse(rq, "lab"))
    /\ last' = Ack("start-camera", s, OrElse(rq, "lab"), "broadcast", 0, <<>>)
    /\ UNCHANGED <<viewer, announced, mediaCodecs, snapshots, peers, roomProducers, publishers, transports, producers,
                   consumers, pending, ingest, connected, joined, nextObj,
                   recvNew, recvClosed, closedEmits, now>>

StopCamera(s) ==
    /\ s \in connected
    /\ last' = Ack("stop-camera", s, Undef, "broadcast", 0, <<>>)
    /\ UNCHANGED <<viewer, announced, mediaCodecs, snapshots, rooms, peers, roomProducers, publishers, transports,
                   producers, consumers, pending, ingest, connected, joined,
                   nextObj, recvNew, recvClosed, closedEmits, now>>

\* ---------------------------------------------------- connect-transport
FindAnyTransport(peer, transportId) == transportId \in 1..Len(transports)
\* peer.transports.find((t) => t.id === transportId)
FindTransport(peer, transportId) == Has(peer.transports, transportId)

ConnectTransport(s, rq, transportId) ==
    LET roomId == OrElse(rq, DEFAULT_ROOM)
        peer == getPeer(roomId, s)
    IN  /\ s \in connected
        /\ IF peer = NoPeer
             THEN /\ last' = Ack("connect-transport", s, roomId,
                                 "peer not found", transportId, <<>>)
                  /\ UNCHANGED transports
             ELSE IF ~FindTransport(peer, transportId)
             THEN /\ last' = Ack("connect-transport", s, roomId,
                                 "transport not found", transportId, <<>>)
                  /\ UNCHANGED transports
             ELSE IF transports[transportId].closed
                       \/ transports[transportId].connected
             THEN \* transport.connect rejects: safeSocket answers the error
                  /\ last' = Ack("connect-transport", s, roomId, "error",
                                 transportId, <<>>)
                  /\ UNCHANGED transports
             ELSE /\ transports' = [transports EXCEPT
                                       ![transportId].connected = TRUE]
                  /\ last' = Ack("connect-transport", s, roomId, "ok",
                                 transportId, <<>>)
        /\ UNCHANGED <<viewer, announced, mediaCodecs, snapshots, rooms, peers, roomProducers, publishers, producers,
                       consumers, pending, ingest, connected, joined, nextObj,
                       recvNew, recvClosed, closedEmits, now>>

\* --------------------------------------------------- publisher presence
PublisherKeepalive(s, rq, id) ==
    LET roomId == OrElse(rq, "lab") IN
    /\ s \in connected
    /\ rooms' = ensureRoom(roomId)
    /\ publishers' = IF Truthy(id)
                       THEN [publishers EXCEPT ![roomId] = MapSet(@, id, now)]
                       ELSE publishers
    /\ last' = Ack("publisher-keepalive", s, roomId, "none", 0, <<>>)
    /\ UNCHANGED <<viewer, announced, mediaCodecs, snapshots, peers, roomProducers, transports, producers, consumers,
                   pending, ingest, connected, joined, nextObj, recvNew,
                   recvClosed, closedEmits, now>>

\* the clock advances
Tick ==
    /\ now < MaxTicks * TickMs
    /\ now' = now + TickMs
    /\ UNCHANGED <<viewer, announced, mediaCodecs, snapshots, rooms, peers, roomProducers, publishers, transports,
                   producers, consumers, pending, ingest, connected, joined,
                   nextObj, recvNew, recvClosed, closedEmits, last>>

SweepRemovesAtTTL(ts) == now - ts >= PUBLISHER_TTL_MS
\* what the background task removes: now - ts > PUBLISHER_TTL_MS
SweepRemoves(ts) == now - ts > PUBLISHER_TTL_MS

\* setInterval(..., 10_000): prune stale publishers
Sweep ==
    /\ publishers' = [r \in RoomKeys |->
          IF Has(rooms, r)
            THEN [id \in {i \in DOMAIN publishers[r] :
                             ~SweepRemoves(publishers[r][i])}
                     |-> publishers[r][id]]
            ELSE publishers[r]]
    /\ last' = Ack("sweep", NoSock, Undef, "none", 0, <<>>)
    /\ UNCHANGED <<viewer, announced, mediaCodecs, snapshots, rooms, peers, roomProducers, transports, producers,
                   consumers, pending, ingest, connected, joined, nextObj,
                   recvNew, recvClosed, closedEmits, now>>

ListingShowsAll(ts) == TRUE
\* what GET /ingest/publishers shows: now - ts < PUBLISHER_TTL_MS
ListingShows(ts) == now - ts < PUBLISHER_TTL_MS

PublisherListing(r) ==
    {[id |-> i, lastSeen |-> publishers[r][i]] :
        i \in {j \in DOMAIN publishers[r] : ListingShows(publishers[r][j])}}

\* GET /ingest/publishers: one item per room, in registry order
ListPublishers ==
    /\ last' = Ack("publishers", NoSock, Undef, "ok", 0,
                   [i \in 1..Len(rooms) |->
                       [roomId |-> rooms[i],
                        publishers |-> PublisherListing(rooms[i])]])
    /\ UNCHANGED <<viewer, announced, mediaCodecs, snapshots, rooms, peers, roomProducers, publishers, transports,
                   producers, consumers, pending, ingest, connected, joined,
                   nextObj, recvNew, recvClosed, closedEmits, now>>

\* ------------------------------------------------------- /ingest/create
toLowerCase(m) ==
    CASE m = "video/H264" -> "video/h264"
      [] m = "video/VP8" -> "video/vp8"
      [] OTHER -> m

NoCodec == [kind |-> Undef, mimeType |-> Undef]

FindVideo(codecs) ==
    LET hit == SelectSeq(codecs, LAMBDA c : c.kind = "video")
    IN  IF Len(hit) = 0 THEN NoCodec ELSE hit[1]
\* codecs.find(c => c.kind === "video" && lower(c.mimeType) === "video/h264")
FindH264(codecs) ==
    LET hit == SelectSeq(codecs, LAMBDA c :
                  c.kind = "video" /\ toLowerCase(c.mimeType) = "video/h264")
    IN  IF Len(hit) = 0 THEN NoCodec ELSE hit[1]

h264Codec == FindH264(mediaCodecs)

IngestReply(roomId, res, id) == Ack("ingest-create", NoSock, roomId, res, id, <<>>)

\* up to `await room.router.createPlainTransport(...)`
IngestBegin(rq, label, path) ==
    LET roomId == OrElse(rq, DEFAULT_ROOM) IN
    /\ ingest.op = "idle"
    /\ rooms' = ensureRoom(roomId)
    /\ IF h264Codec = NoCodec
         THEN /\ last' = IngestReply(roomId, "500", 0)
              /\ UNCHANGED ingest
         ELSE /\ ingest' = [op |-> "createPlainTransport", room |-> roomId,
                            label |-> label, path |-> path, transport |-> 0]
              /\ UNCHANGED last
    /\ UNCHANGED <<viewer, announced, mediaCodecs, snapshots, peers, roomProducers, publishers, transports, producers,
                   consumers, pending, connected, joined, nextObj, recvNew,
                   recvClosed, closedEmits, now>>

IngestWaitTupleOnly(tuple, rtcpTuple) ==
    IF ~tuple THEN "tuple" ELSE "produce"
\* where the handler waits next: `tuple`, then `rtcpTuple`, then produce
IngestWait(tuple, rtcpTuple) ==
    IF ~tuple THEN "tuple" ELSE IF ~rtcpTuple THEN "rtcpTuple" ELSE "produce"

\* the plain transport exists; either address may already be known
IngestTransport(tuple, rtcpTuple) ==
    LET tid == Len(transports) + 1 IN
    /\ ingest.op = "createPlainTransport"
    /\ Len(transports) < MaxTransports
    /\ transports' = Append(transports,
          [NewTransport("plain", NoSock, ingest.room, 0, "recv")
              EXCEPT !.tuple = tuple, !.rtcpTuple = rtcpTuple])
    /\ ingest' = [ingest EXCEPT !.op = IngestWait(tuple, rtcpTuple),
                                !.transport = tid]
    /\ UNCHANGED <<viewer, announced, mediaCodecs, snapshots, rooms, peers, roomProducers, publishers, producers,
                   consumers, pending, connected, joined, nextObj, recvNew,
                   recvClosed, closedEmits, last, now>>

\* the plain transport learns its RTP address: `tuple`
TupleEvent(t) ==
    /\ t \in 1..Len(transports)
    /\ transports[t].type = "plain"
    /\ ~transports[t].closed /\ ~transports[t].tuple
    /\ transports' = [transports EXCEPT ![t].tuple = TRUE]
    /\ ingest' = IF ingest.op = "tuple" /\ ingest.transport = t
                   THEN [ingest EXCEPT !.op =
                            IngestWait(TRUE, transports[t].rtcpTuple)]
                   ELSE ingest
    /\ UNCHANGED <<viewer, announced, mediaCodecs, snapshots, rooms, peers, roomProducers, publishers, producers,
                   consumers, pending, connected, joined, nextObj, recvNew,
                   recvClosed, closedEmits, last, now>>

\* the plain transport learns its RTCP address: `rtcpTuple`
RtcpTupleEvent(t) ==
    /\ t \in 1..Len(transports)
    /\ transports[t].type = "plain"
    /\ ~transports[t].closed /\ ~transports[t].rtcpTuple
    /\ transports' = [transports EXCEPT ![t].rtcpTuple = TRUE]
    /\ ingest' = IF ingest.op = "rtcpTuple" /\ ingest.transport = t
                   THEN [ingest EXCEPT !.op = "produce"]
                   ELSE ingest
    /\ UNCHANGED <<viewer, announced, mediaCodecs, snapshots, rooms, peers, roomProducers, publishers, producers,
                   consumers, pending, connected, joined, nextObj, recvNew,
                   recvClosed, closedEmits, last, now>>

\* plainTransport.produce rejects: the catch answers 500
IngestFail ==
    /\ ingest.op = "produce"
    /\ transports[ingest.transport].closed
    /\ ingest' = Idle
    /\ last' = IngestReply(ingest.room, "500", 0)
    /\ UNCHANGED <<viewer, announced, mediaCodecs, snapshots, rooms, peers, roomProducers, publishers, transports,
                   producers, consumers, pending, connected, joined, nextObj,
                   recvNew, recvClosed, closedEmits, now>>

IngestMetaDefaults(label, path) ==
    [kind |-> "video", label |-> "RTP Ingest", path |-> "plainrtp",
     ownerSocketId |-> Undef]
\* what /ingest/create stores: meta
IngestMeta(label, path) ==
    [kind |-> "video", label |-> OrElse(label, "RTP Ingest"),
     path |-> OrElse(path, "plainrtp"), ownerSocketId |-> Undef]

\* { producerId: producer.id, kind: meta.kind, label: meta.label, path: meta.path }
IngestNewProducerMsg(pid, meta) ==
    [producerId |-> pid, kind |-> meta.kind, label |-> meta.label,
     path |-> meta.path, roleHint |-> Undef, signal |-> Undef,
     roomFromReferer |-> Undef]

\* the producer exists and the handler resumes: registration, new-producer
\* broadcast to the whole room, close listeners, response
IngestDone ==
    LET roomId == ingest.room
        pid == Len(producers) + 1
    IN  /\ ingest.op = "produce"
        /\ ~transports[ingest.transport].closed
        /\ Len(producers) < MaxProducers
        /\ ingest' = Idle
        /\ producers' = Append(producers,
              NewProducer("ingest", ingest.transport, "video", roomId, NoSock))
        /\ roomProducers' = [roomProducers EXCEPT ![roomId] =
              Append(@, [id |-> pid,
                         meta |-> IngestMeta(ingest.label, ingest.path)])]
        /\ recvNew' = [x \in Socks |-> [p \in PIds |->
              IF p = pid /\ x \in Members(roomId)
                THEN recvNew[x][p] + 1 ELSE recvNew[x][p]]]
        /\ announced' = [announced EXCEPT ![pid] =
              IngestNewProducerMsg(pid, IngestMeta(ingest.label, ingest.path))]
        /\ last' = IngestReply(roomId, "ok", pid)
        /\ UNCHANGED <<viewer, mediaCodecs, snapshots, rooms, peers, publishers, transports, consumers,
                       pending, connected, joined, nextObj, recvClosed,
                       closedEmits, now>>

\* ------------------------------------------- the viewer page (socket s2)
\* MosaicViewer keeps consumersRef (producer id -> consumer) and runs async
\* functions that interleave at every `await`.  viewer.tasks holds the
\* calls in flight and where each one waits; viewer.made[p] counts the
\* consumers created for producer p and not closed; viewer.listeners counts
\* the registered new-producer listeners (the cleanup that `start` returns
\* is dropped by useEffect, so none is ever removed).
ViewerRoom == "lab"
ViewerSock == "s2"

ViewerFree == {k \in 1..MaxTasks : viewer.tasks[k].fn = "idle"}

\* (result?.producers || []).filter((p) => p.kind === "video"), as ids
VideoIds(r) ==
    LET l == SelectSeq(ProducerList(r), LAMBDA e : e.kind = "video")
    IN  [i \in 1..Len(l) |-> l[i].id]

\* for (const p of list) { if (consumersRef.current.has(p.id)) continue;
\*   ...; await consumeOne(p.id) }: runs on to the next consume request,
\* or to the end of reloadProducers
ReloadNext(list, has, start) ==
    LET idx == {i \in 1..Len(list) : list[i] \notin has} IN
    IF idx = {} THEN NoTask
    ELSE LET i == CHOOSE i \in idx : \A j \in idx : i <= j
         IN  [fn |-> "reloadProducers", at |-> "consume", pid |-> list[i],
              list |-> SubSeq(list, i + 1, Len(list)), start |-> start]

\* the effect runs: join has been sent and handled, then
\* `await reloadProducers()` sends list-producers
ViewerStart ==
    /\ viewer.starts < MaxStarts
    /\ nextObj[ViewerRoom][ViewerSock] - 1 > viewer.starts
    /\ ViewerFree # {}
    /\ viewer' = [viewer EXCEPT
          !.starts = @ + 1,
          !.tasks[CHOOSE k \in ViewerFree : \A j \in ViewerFree : k <= j] =
              [fn |-> "reloadProducers", at |-> "list-producers", pid |-> 0,
               list |-> <<>>, start |-> TRUE]]
    /\ UNCHANGED server

\* reloadProducers resumes with the list-producers answer: orphan tiles
\* are removed, then the loop runs to its first consume request; when the
\* reload of `start` ends, start registers its new-producer listener
ViewerListAck(k) ==
    LET t == viewer.tasks[k]
        ids == VideoIds(ViewerRoom)
        has == viewer.consumersRef \cap SeqToSet(ids)
        nt == ReloadNext(ids, has, t.start)
    IN  /\ t.fn = "reloadProducers" /\ t.at = "list-producers"
        /\ viewer' = [viewer EXCEPT
              !.consumersRef = has,
              !.made = [p \in PIds |->
                          IF p \in viewer.consumersRef \ has
                            THEN viewer.made[p] - 1 ELSE viewer.made[p]],
              !.tasks[k] = nt,
              !.listeners = IF nt.fn = "idle" /\ t.start THEN @ + 1 ELSE @]
        /\ UNCHANGED server

\* consumeOne resumes with the consume answer: on an error it returns, else
\* recvTransport.consume creates the consumer and
\* consumersRef.current.set(producerId, consumer) stores it, replacing
\* (not closing) a consumer already stored under that id
ViewerConsumeAck(k) ==
    LET t == viewer.tasks[k]
        ok == t.pid \in 1..Len(producers) /\ ~ProducerClosed(t.pid)
        has == IF ok THEN viewer.consumersRef \cup {t.pid}
                     ELSE viewer.consumersRef
        nt == IF t.fn = "reloadProducers"
                THEN ReloadNext(t.list, has, t.start) ELSE NoTask
    IN  /\ t.at = "consume"
        /\ viewer' = [viewer EXCEPT
              !.consumersRef = has,
              !.made[t.pid] = IF ok THEN @ + 1 ELSE @,
              !.tasks[k] = nt,
              !.listeners = IF nt.fn = "idle" /\ t.start THEN @ + 1 ELSE @]
        /\ UNCHANGED server

\* a new-producer notification reaches the page: every registered
\* onNewProducer listener runs to its first await.  Each returns when the
\* kind is not video or consumersRef already has the id; with a label or
\* path in the payload it goes on to consumeOne, else it first asks
\* get-producer-info.
ViewerNewProducer(p) ==
    LET msg == announced[p]
        runs == viewer.listeners > 0 /\ msg.kind = "video"
                  /\ p \notin viewer.consumersRef
        call == [fn |-> "onNewProducer",
                 at |-> IF Truthy(msg.label) \/ Truthy(msg.path)
                          THEN "consume" ELSE "get-producer-info",
                 pid |-> p, list |-> <<>>, start |-> FALSE]
    IN  /\ recvNew[ViewerSock][p] > viewer.handled[p]
        /\ runs => Cardinality(ViewerFree) >= viewer.listeners
        /\ viewer' = [viewer EXCEPT
              !.handled[p] = @ + 1,
              !.tasks = IF runs
                          THEN [k \in 1..MaxTasks |->
                                  IF k \in ViewerFree
                                     /\ Cardinality({j \in ViewerFree : j <= k})
                                           <= viewer.listeners
                                    THEN call ELSE viewer.tasks[k]]
                          ELSE @]
        /\ UNCHANGED server

\* onNewProducer resumes with the get-producer-info answer; without an
\* info matchSelection fails and it returns, else it calls consumeOne
ViewerInfoAck(k) ==
    LET t == viewer.tasks[k] IN
    /\ t.at = "get-producer-info"
    /\ viewer' = [viewer EXCEPT !.tasks[k] =
          IF ProducerInfo(ViewerRoom, t.pid) = <<>> THEN NoTask
          ELSE [t EXCEPT !.at = "consume"]]
    /\ UNCHANGED server

\* ------------------------------------------------------- specifications
\* Each specification composes the handlers above under one environment:
\* which sockets send which requests, with which payloads.  All of them
\* start from Init and interleave the routing capability's events freely.

\* kind, label and path a produce request submits
Payloads == {<<"audio", "cam1", "front">>, <<"video", "cam2", "front">>}

NotIn(s, r) == getPeer(r, s) = NoPeer
Owns(s, r, t) == Has(getPeer(r, s).transports, t)

RouterEvent ==
    \/ \E t \in TIds : TransportClose(t)
    \/ \E p \in PIds : ProducerClose(p)

\* Spec: the publish / close lifecycle.  s1 joins rooms, creates send
\* transports and produces on them; s2 joins a room and lists producers;
\* transports and producers close at any moment.
Next ==
    \/ \E rq \in RoomIds : NotIn("s1", rq) /\ Join("s1", rq, Undef, Undef)
    \/ NotIn("s2", "lab") /\ Join("s2", "lab", Undef, Undef)
    \/ \E rq \in RoomIds :
          ~NotIn("s1", rq) /\ CreateTransportBegin("s1", rq, "send")
    \/ CreateTransportFail("s1")
    \/ CreateTransportDone("s1")
    \/ \E rq \in RoomIds, t \in TIds, pl \in Payloads :
          Owns("s1", rq, t) /\ ProduceBegin("s1", rq, t, pl[1], pl[2], pl[3])
    \/ ProduceFail("s1")
    \/ ProduceDone("s1")
    \/ \E rq \in RoomIds : Has(rooms, rq) /\ ListProducers("s2", rq)
    \/ RouterEvent

Spec == Init /\ [][Next]_vars

\* label and path of an /ingest/create body: both given, or both absent
IngestPayloads == {<<"gate", "rtsp/gate">>, <<Undef, Undef>>}

\* SpecIngest: RTP ingest.  s2 watches room lab; /ingest/create runs for
\* either room; the plain transport learns its addresses, and transports
\* and producers close at any moment.
NextIngest ==
    \/ NotIn("s2", "lab") /\ Join("s2", "lab", Undef, Undef)
    \/ \E rq \in RoomIds \cup {Undef}, lp \in IngestPayloads :
          IngestBegin(rq, lp[1], lp[2])
    \/ \E tuple, rtcpTuple \in BOOLEAN : IngestTransport(tuple, rtcpTuple)
    \/ \E t \in TIds : TupleEvent(t)
    \/ \E t \in TIds : RtcpTupleEvent(t)
    \/ IngestFail
    \/ IngestDone
    \/ RouterEvent

SpecIngest == Init /\ [][NextIngest]_vars

\* SpecCodecs: RTP ingest on a server started with any codec configuration.
SpecCodecs == InitCodecs /\ [][NextIngest]_vars

\* SpecDisconnect: connections that go away.  s1 joins rooms and publishes
\* in lab, s2 joins lab and consumes; either socket disconnects at any
\* moment, and handlers that were waiting on the router still resume.
NextDisconnect ==
    \/ \E rq \in RoomIds : NotIn("s1", rq) /\ Join("s1", rq, Undef, Undef)
    \/ NotIn("s2", "lab") /\ Join("s2", "lab", Undef, Undef)
    \/ ~NotIn("s1", "lab") /\ CreateTransportBegin("s1", "lab", "send")
    \/ ~NotIn("s2", "lab") /\ CreateTransportBegin("s2", "lab", "recv")
    \/ \E s \in Socks : CreateTransportDone(s)
    \/ \E t \in TIds :
          Owns("s1", "lab", t) /\ ProduceBegin("s1", "lab", t, "video", "cam1", "front")
    \/ ProduceDone("s1")
    \/ \E t \in TIds, p \in PIds :
          /\ Owns("s2", "lab", t) /\ p \in TableIds("lab")
          /\ ConsumeBegin("s2", "lab", t, p, "ok")
    \/ ConsumeDone("s2")
    \/ ProduceFail("s1")
    \/ ConsumeFail("s2")
    \/ \E s \in Socks : Disconnect(s)
    \/ RouterEvent

SpecDisconnect == Init /\ [][NextDisconnect]_vars

\* SpecConsume: the viewing side.  s1 publishes in lab; s2 joins lab, opens
\* a receive transport, asks to consume with compatible or incompatible
\* capabilities, and either socket sends resume for any consumer id.
NextConsume ==
    \/ \E s \in Socks : NotIn(s, "lab") /\ Join(s, "lab", Undef, Undef)
    \/ ~NotIn("s1", "lab") /\ CreateTransportBegin("s1", "lab", "send")
    \/ ~NotIn("s2", "lab") /\ CreateTransportBegin("s2", "lab", "recv")
    \/ \E s \in Socks : CreateTransportDone(s)
    \/ \E t \in TIds :
          Owns("s1", "lab", t) /\ ProduceBegin("s1", "lab", t, "video", "cam1", "front")
    \/ ProduceFail("s1")
    \/ ProduceDone("s1")
    \/ \E t \in TIds, p \in PIds, caps \in Caps :
          Owns("s2", "lab", t) /\ ConsumeBegin("s2", "lab", t, p, caps)
    \/ ConsumeFail("s2")
    \/ ConsumeDone("s2")
    \/ \E s \in Socks, c \in CIds : Resume(s, c)
    \/ RouterEvent

SpecConsume == Init /\ [][NextConsume]_vars

\* SpecPresence: publisher presence.  Publishers join with an id or send
\* keepalives, the clock advances, the sweep runs when its timer fires, and
\* GET /ingest/publishers is read at any moment.
NextPresence ==
    \/ \E s \in Socks, rq \in RoomIds, role \in RoleInputs :
          NotIn(s, rq) /\ Join(s, rq, role, "bot1")
    \/ \E s \in Socks, rq \in RoomIds \cup {Undef}, id \in PubIds \cup {Undef} :
          PublisherKeepalive(s, rq, id)
    \/ Tick
    \/ Sweep
    \/ ListPublishers

SpecPresence == Init /\ [][NextPresence]_vars

\* SpecNotify: who hears of which producer.  s1 and s2 join lab at any
\* moment; s1 publishes there and RTP ingest adds producers to the same
\* room; transports and producers close at any moment.
NextNotify ==
    \/ \E s \in Socks : NotIn(s, "lab") /\ Join(s, "lab", Undef, Undef)
    \/ ~NotIn("s1", "lab") /\ CreateTransportBegin("s1", "lab", "send")
    \/ CreateTransportDone("s1")
    \/ \E t \in TIds :
          Owns("s1", "lab", t) /\ ProduceBegin("s1", "lab", t, "video", "cam1", "front")
    \/ ProduceFail("s1")
    \/ ProduceDone("s1")
    \/ IngestBegin("lab", Undef, Undef)
    \/ IngestTransport(TRUE, TRUE)
    \/ IngestFail
    \/ IngestDone
    \/ RouterEvent

SpecNotify == Init /\ [][NextNotify]_vars

\* SpecRooms: the room registry.  s1 joins rooms; s2 only asks: it lists
\* producers, reads producer info, asks to consume, asks for a transport
\* with a bad direction, starts and stops cameras and sends keepalives, for
\* rooms that may not exist yet; RTP ingest runs beside them and its
\* transport may close.
NextRooms ==
    \/ \E rq \in RoomIds : NotIn("s1", rq) /\ Join("s1", rq, Undef, Undef)
    \/ \E rq \in RoomIds : CreateTransportBegin("s2", rq, "both")
    \/ \E rq \in RoomKeys : ListProducers("s2", rq)
    \/ \E rq \in RoomIds : GetProducerInfo("s2", rq, 1)
    \/ \E rq \in RoomIds : ConsumeBegin("s2", rq, 1, 1, "bad")
    \/ \E rq \in RoomIds : StartCamera("s2", rq)
    \/ StopCamera("s2")
    \/ \E rq \in RoomIds : PublisherKeepalive("s2", rq, "bot1")
    \/ \E rq \in RoomIds : IngestBegin(rq, Undef, Undef)
    \/ IngestTransport(TRUE, TRUE)
    \/ IngestDone
    \/ \E t \in TIds : TransportClose(t)

SpecRooms == Init /\ [][NextRooms]_vars

\* SpecRequests: requests as any client may send them, valid or not.  s1
\* joins, asks for transports of any direction in any room (joined or not)
\* and produces on any transport id; s2 watches room lab.
NextRequests ==
    \/ \E rq \in RoomIds : NotIn("s1", rq) /\ Join("s1", rq, Undef, Undef)
    \/ NotIn("s2", "lab") /\ Join("s2", "lab", Undef, Undef)
    \/ \E rq \in RoomIds, d \in Directions :
          CreateTransportBegin("s1", rq, d)
    \/ CreateTransportDone("s1")
    \/ \E rq \in RoomIds, t \in TIds :
          ProduceBegin("s1", rq, t, "video", "cam1", "front")
    \/ ProduceFail("s1")
    \/ ProduceDone("s1")
    \/ \E t \in TIds : TransportClose(t)

SpecRequests == Init /\ [][NextRequests]_vars

\* SpecSweep: the presence table over time.  s1 announces publisher bot1
\* in either room by join or keepalive; the clock advances and the
\* setInterval timer keeps firing, so neither is postponed forever.
NextSweep ==
    \/ \E rq \in RoomIds : NotIn("s1", rq) /\ Join("s1", rq, "publisher", "bot1")
    \/ \E rq \in RoomIds : PublisherKeepalive("s1", rq, "bot1")
    \/ Tick
    \/ Sweep

SpecSweep == Init /\ [][NextSweep]_vars /\ WF_vars(Tick) /\ WF_vars(Sweep)

\* SpecViewer: a viewer that sends what it likes.  s1 publishes in lab;
\* s2 joins r2, opens a receive transport there, and sends
\* connect-transport and consume for any room, transport and producer id,
\* its own or not.
NextViewer ==
    \/ NotIn("s1", "lab") /\ Join("s1", "lab", Undef, Undef)
    \/ NotIn("s2", "r2") /\ Join("s2", "r2", Undef, Undef)
    \/ ~NotIn("s1", "lab") /\ CreateTransportBegin("s1", "lab", "send")
    \/ ~NotIn("s2", "r2") /\ CreateTransportBegin("s2", "r2", "recv")
    \/ \E s \in Socks : CreateTransportDone(s)
    \/ \E rq \in RoomIds \cup {Undef}, t \in TIds :
          ConnectTransport("s2", rq, t)
    \/ \E t \in TIds :
          Owns("s1", "lab", t) /\ ProduceBegin("s1", "lab", t, "video", "cam1", "front")
    \/ ProduceFail("s1")
    \/ ProduceDone("s1")
    \/ \E rq \in RoomIds, t \in TIds, p \in PIds, caps \in Caps :
          ConsumeBegin("s2", rq, t, p, caps)
    \/ ConsumeFail("s2")
    \/ ConsumeDone("s2")
    \/ RouterEvent

SpecViewer == Init /\ [][NextViewer]_vars

\* SpecTouch: who touches the presence table.  s1 joins either room in any
\* role, as bot2 or without a publisher id; s2 sends keepalives for bot1
\* or without an id, with or without a room; the clock advances.
TouchIds == {"bot1", "bot2"}

NextTouch ==
    \/ \E rq \in RoomIds, role \in RoleInputs, id \in {"bot2", Undef} :
          NotIn("s1", rq) /\ Join("s1", rq, role, id)
    \/ \E rq \in RoomIds \cup {Undef}, id \in {"bot1", Undef} :
          PublisherKeepalive("s2", rq, id)
    \/ Tick

SpecTouch == Init /\ [][NextTouch]_vars

\* SpecRejoin: connections that send join more than once.  s1 joins lab
\* again and again, creates send transports and produces; s2 joins lab,
\* opens a receive transport and consumes; transports may close.
NextRejoin ==
    \/ \E s \in Socks : Join(s, "lab", Undef, Undef)
    \/ ~NotIn("s1", "lab") /\ CreateTransportBegin("s1", "lab", "send")
    \/ ~NotIn("s2", "lab") /\ CreateTransportBegin("s2", "lab", "recv")
    \/ \E s \in Socks : CreateTransportDone(s)
    \/ \E t \in TIds :
          Owns("s1", "lab", t) /\ ProduceBegin("s1", "lab", t, "video", "cam1", "front")
    \/ ProduceFail("s1")
    \/ ProduceDone("s1")
    \/ \E t \in TIds, p \in PIds :
          Owns("s2", "lab", t) /\ ConsumeBegin("s2", "lab", t, p, "ok")
    \/ ConsumeFail("s2")
    \/ ConsumeDone("s2")
    \/ \E t \in TIds : TransportClose(t)

SpecRejoin == Init /\ [][NextRejoin]_vars

\* SpecPage: the viewer page against the server.  s1 joins lab and
\* publishes video; the page on s2 runs its effect (once, or again after a
\* change of its dependencies), each run joining lab and reloading the
\* producers; notifications and answers reach the page in any order.
NextPage ==
    \/ NotIn("s1", "lab") /\ Join("s1", "lab", Undef, Undef)
    \/ ~NotIn("s1", "lab") /\ CreateTransportBegin("s1", "lab", "send")
    \/ CreateTransportDone("s1")
    \/ \E t \in TIds :
          Owns("s1", "lab", t) /\ ProduceBegin("s1", "lab", t, "video", "cam1", "front")
    \/ ProduceDone("s1")
    \/ /\ nextObj[ViewerRoom][ViewerSock] - 1 = viewer.starts
       /\ Join(ViewerSock, ViewerRoom, "viewer", Undef)
    \/ ViewerStart
    \/ \E k \in 1..MaxTasks : ViewerListAck(k)
    \/ \E k \in 1..MaxTasks : ViewerInfoAck(k)
    \/ \E k \in 1..MaxTasks : ViewerConsumeAck(k)
    \/ \E p \in PIds : ViewerNewProducer(p)

SpecPage == Init /\ [][NextPage]_vars

\* ---------------------------------------------------------------- claims
ProduceOk == [op |-> "produce", res |-> "ok"]

\* C1 (as claimed): every producer created by `produce` has its
\* producer-closed notification broadcast at most once, and exactly once
\* once it has closed, whichever of `close` and `transportclose` fired.
C1_ProducerClosedBroadcastOnce ==
    \A p \in 1..Len(producers) :
        producers[p].origin = "produce" =>
            /\ closedEmits[p] <= 1
            /\ ProducerClosed(p) => closedEmits[p] = 1

\* C6: a successful produce adds exactly one entry to the named room's
\* producer table, leaves the earlier entries and the other rooms alone,
\* and list-producers then returns that entry with the producer id the
\* routing capability issued and the kind, label and path submitted.
C6_ProduceAddsOneListedEntry ==
    [][\A s \in Socks, r \in RoomKeys, k \in 0..MaxProducers :
          (/\ pending[s].op = "produce"
           /\ pending[s].room = r
           /\ Len(roomProducers[r]) = k
           /\ ProduceDone(s))
          => /\ Len(roomProducers'[r]) = k + 1
             /\ SubSeq(ProducerList(r)', 1, k) = ProducerList(r)
             /\ ProducerList(r)'[k + 1] =
                   [id |-> Len(producers'), kind |-> pending[s].kind,
                    label |-> pending[s].label, path |-> pending[s].path]
             /\ Len(producers') = Len(producers) + 1
             /\ \A q \in RoomKeys \ {r} :
                   roomProducers'[q] = roomProducers[q]
             /\ last' = ProduceOk]_vars

\* a produce has just succeeded in a room that already held a producer
C6_Witness ==
    /\ last = ProduceOk
    /\ \E r \in RoomIds :
          /\ Len(ProducerList(r)) = 2
          /\ ProducerList(r)[1].label # ProducerList(r)[2].label

C2_IngestProducerClosedBroadcastOnce ==
    \A p \in 1..Len(producers) :
        producers[p].origin = "ingest" =>
            /\ closedEmits[p] <= 1
            /\ ProducerClosed(p) => closedEmits[p] = 1

\* C3 (as claimed): a connection whose disconnect has been handled is a key
\* of no room's peer table.
C3_DisconnectedPeerRemoved ==
    \A s \in Socks \ connected : \A r \in RoomKeys : s \notin DOMAIN peers[r]

\* C4 (as claimed): the disconnect of a peer removes each producer it owns
\* from the room's producer table, and every other peer still in that room
\* receives producer-closed for that producer id.
C4_DisconnectClosesProducers ==
    [][\A s \in Socks, p \in PIds, r \in RoomKeys :
          (/\ p <= Len(producers)
           /\ producers[p].origin = "produce"
           /\ producers[p].sock = s
           /\ producers[p].room = r
           /\ p \in TableIds(r)
           /\ Disconnect(s))
          => /\ p \notin TableIds(r)'
             /\ \A x \in Members(r) \ {s} :
                   recvClosed'[x][p] = recvClosed[x][p] + 1]_vars

\* C5 (as claimed): the disconnect of a peer closes every transport and
\* every consumer the peer owned.
C5_DisconnectClosesHandles ==
    [][\A s \in Socks :
          Disconnect(s) =>
             /\ \A t \in 1..Len(transports) :
                   transports[t].sock = s => transports'[t].closed
             /\ \A c \in 1..Len(consumers) :
                   consumers[c].sock = s => consumers'[c].closed]_vars

CannotConsume == [op |-> "consume", res |-> "cannot consume"]

\* C8: a consume request the router's compatibility test rejects is
\* answered with the cannot-consume error, creates no consumer and starts
\* none, and leaves every room's producer table and every peer record (its
\* consumer list included) unchanged.
C8_CannotConsumeChangesNothing ==
    [][\A s \in Socks, rq \in RoomIds, t \in TIds, p \in PIds, caps \in Caps :
          (~canConsume(p, caps) /\ ConsumeBegin(s, rq, t, p, caps))
          => /\ last' = CannotConsume
             /\ consumers' = consumers
             /\ pending' = pending
             /\ roomProducers' = roomProducers
             /\ peers' = peers]_vars

\* a consume with incompatible capabilities for a listed, open producer was
\* rejected while the requester had a transport to receive on
C8_Witness ==
    /\ last = CannotConsume
    /\ \E p \in 1..Len(producers) : p \in TableIds("lab") /\ canConsume(p, "ok")
    /\ \E t \in 1..Len(transports) : Owns("s2", "lab", t)

\* C9: a consumer is created paused, and it leaves the paused state only in
\* a step that is a resume request for its consumer id from the socket
\* that owns it.
C9_PausedUntilOwnerResume ==
    [][/\ \A c \in CIds :
             (c > Len(consumers) /\ c <= Len(consumers'))
             => consumers'[c].paused
       /\ \A c \in CIds, s \in Socks :
             (/\ c <= Len(consumers)
              /\ consumers[c].sock = s
              /\ consumers[c].paused
              /\ ~consumers'[c].paused)
             => Resume(s, c)]_vars

\* a consumer is still paused after another peer asked to resume it
C9_Witness ==
    /\ last = [op |-> "resume", res |-> "no consumer"]
    /\ \E c \in 1..Len(consumers) :
          consumers[c].paused /\ ~consumers[c].closed

\* C10: at every time, no entry of the publisher listing is older than
\* PUBLISHER_TTL_MS, whether or not the sweep has removed it from the table.
C10_ListingHidesExpired ==
    \A r \in RoomKeys : \A e \in PublisherListing(r) :
        ~(now - e.lastSeen > PUBLISHER_TTL_MS)

\* the listing was read while the table still held an expired entry beside
\* a fresh one
C10_Witness ==
    /\ last = [op |-> "publishers", res |-> "ok"]
    /\ \E r \in RoomIds : \E i \in DOMAIN publishers[r] :
          now - publishers[r][i] > PUBLISHER_TTL_MS
    /\ \E r \in RoomIds : PublisherListing(r) # {}

\* the configured codec set holds no video codec whose mime type is H264
NoH264Configured ==
    \A i \in 1..Len(mediaCodecs) :
        ~(/\ mediaCodecs[i].kind = "video"
          /\ mediaCodecs[i].mimeType \in {"video/H264", "video/h264"})

\* C11: with no video/H264 codec configured, every /ingest/create request
\* is answered with the 500 error and starts no transport allocation, and
\* no step leaves a plain transport, an ingest producer, a changed producer
\* table or a new-producer notification behind.
C11_NoH264IngestRejected ==
    [][NoH264Configured =>
         /\ \A rq \in RoomIds \cup {Undef}, label \in {"gate", Undef} :
               IngestBegin(rq, label, Undef) =>
                  /\ last' = [op |-> "ingest-create", res |-> "500"]
                  /\ ingest' = Idle
         /\ ingest'.op = "idle"
         /\ \A t \in 1..Len(transports') : transports'[t].type # "plain"
         /\ producers' = <<>>
         /\ roomProducers' = roomProducers
         /\ recvNew' = recvNew]_vars

\* an ingest request was refused on a server configured without H264
C11_Witness ==
    /\ NoH264Configured
    /\ last = [op |-> "ingest-create", res |-> "500"]
    /\ Members("lab") # {}
    /\ Has(rooms, "r2")

\* C12: under every interleaving of the handlers, the registry holds each
\* room id at most once, a room once registered keeps its place, and no
\* step resets a registered room's tables: a peer record goes only with
\* its connection, a producer entry only with a producer-closed broadcast,
\* a publisher entry only once it is older than the TTL.
C12_OneRoomPerIdNeverReset ==
    [][/\ \A i, j \in 1..Len(rooms') : rooms'[i] = rooms'[j] => i = j
       /\ Len(rooms') >= Len(rooms)
       /\ SubSeq(rooms', 1, Len(rooms)) = rooms
       /\ \A r \in RoomKeys :
             Has(rooms, r) =>
                /\ \A s \in DOMAIN peers[r] :
                      s \in DOMAIN peers'[r] \/ s \notin connected'
                /\ \A p \in TableIds(r) :
                      p \in TableIds(r)' \/ closedEmits'[p] > closedEmits[p]
                /\ \A id \in DOMAIN publishers[r] :
                      \/ id \in DOMAIN publishers'[r]
                      \/ now - publishers[r][id] > PUBLISHER_TTL_MS]_vars

\* list-producers has just named the only registered room while its peer,
\* producer and publisher tables all held entries
C12_Witness ==
    /\ last = [op |-> "list-producers", res |-> "ok"]
    /\ Len(rooms) = 1
    /\ DOMAIN peers[rooms[1]] # {}
    /\ TableIds(rooms[1]) # {}
    /\ DOMAIN publishers[rooms[1]] # {}

\* C13 (as claimed): a room id enters the registry only in a step of a join
\* or an ingest-create request, and no step removes one.
C13_RoomsOnlyFromJoinOrIngest ==
    [][\A r \in RoomKeys :
          /\ Has(rooms, r) => Has(rooms, r)'
          /\ (~Has(rooms, r) /\ Has(rooms, r)') =>
                \/ \E s \in Socks, rq \in RoomKeys, role \in RoleInputs \cup {Undef},
                      id \in PubIds \cup {Undef} : Join(s, rq, role, id)
                \/ \E rq \in RoomKeys, label \in {"gate", Undef} :
                      IngestBegin(rq, label, Undef)]_vars

\* producers registered in room r whose close signals have not fired
OpenProducersOf(r) ==
    {p \in 1..Len(producers) : producers[p].room = r /\ ~ProducerClosed(p)}

\* C14: the producer list a join acknowledges is the room's producer table
\* as it stands when the peer is registered: one entry per table entry, in
\* table order, with that entry's id, kind, label and path; its ids are
\* exactly the producers registered in the room and not yet closed.
C14_JoinSnapshotIsTable ==
    [][\A s \in Socks, r \in RoomKeys :
          \* the step registers a new peer record of s in r: a join
          (/\ nextObj'[r][s] = nextObj[r][s] + 1
           /\ \E rq \in {r, Undef} : Join(s, rq, Undef, Undef))
          => /\ s \in DOMAIN peers'[r]
             /\ Len(JoinSnapshot(r)') = Len(roomProducers[r])
             /\ \A i \in 1..Len(roomProducers[r]) :
                   JoinSnapshot(r)'[i] =
                      [producerId |-> roomProducers[r][i].id,
                       kind |-> producers[roomProducers[r][i].id].kind,
                       label |-> roomProducers[r][i].meta.label,
                       path |-> roomProducers[r][i].meta.path]
             /\ TableIds(r) = OpenProducersOf(r)
             /\ snapshots'[s] = snapshots[s] \cup OpenProducersOf(r)]_vars

\* s2 has just joined lab and was handed its open producer, while a
\* producer of lab that closed earlier is not in the list
C14_Witness ==
    /\ last = [op |-> "join", res |-> "ok"]
    /\ "s2" \in DOMAIN peers["lab"]
    /\ snapshots["s2"] # {}
    /\ snapshots["s2"] = OpenProducersOf("lab")
    /\ \E p \in 1..Len(producers) :
          producers[p].room = "lab" /\ ProducerClosed(p)

\* how often socket s has been told of producer p: by a join snapshot, by
\* new-producer notifications
Told(s, p) == (IF p \in snapshots[s] THEN 1 ELSE 0) + recvNew[s][p]

\* C15: a peer is never told twice of a producer it does not own (not by
\* two notifications, not by a snapshot and a notification), and a peer
\* that is in the room of a listed producer it does not own has been told
\* of it once, whenever it joined.
C15_ToldExactlyOnce ==
    \A s \in Socks : \A p \in 1..Len(producers) :
        producers[p].sock # s =>
            /\ Told(s, p) <= 1
            /\ (s \in Members(producers[p].room)
                  /\ p \in TableIds(producers[p].room)) => Told(s, p) = 1

\* s2 learned of one producer from its join snapshot and of another from a
\* new-producer notification, one of them published by s1, one ingested
C15_Witness ==
    /\ Len(producers) = 2
    /\ \E p, q \in 1..Len(producers) :
          /\ p \in snapshots["s2"] /\ recvNew["s2"][p] = 0
          /\ q \notin snapshots["s2"] /\ recvNew["s2"][q] = 1
          /\ producers[p].origin # producers[q].origin

\* C16: every step that takes a producer out of a room's producer table
\* broadcasts producer-closed for its id, and every socket that is in the
\* room at that step receives it.
C16_NoSilentRemoval ==
    [][\A r \in RoomKeys, p \in PIds :
          (p \in TableIds(r) /\ p \notin TableIds(r)')
          => /\ closedEmits'[p] > closedEmits[p]
             /\ \A x \in Members(r) : recvClosed'[x][p] > recvClosed[x][p]]_vars

\* a producer of lab left the table and both sockets in the room heard it
C16_Witness ==
    \E p \in 1..Len(producers) :
        /\ producers[p].room = "lab"
        /\ p \notin TableIds("lab")
        /\ Members("lab") = Socks
        /\ \A x \in Socks : recvClosed[x][p] >= 1

\* C17: a create-transport request whose direction is neither send nor
\* recv is answered with the invalid-direction error, starts no allocation,
\* allocates no transport and leaves every peer record unchanged.
C17_InvalidDirectionRejected ==
    [][\A s \in Socks, rq \in RoomKeys, d \in Directions :
          (d \notin {"send", "recv"} /\ CreateTransportBegin(s, rq, d))
          => /\ last' = [op |-> "create-transport",
                         res |-> "invalid direction"]
             /\ pending' = pending
             /\ transports' = transports
             /\ peers' = peers]_vars

\* an invalid direction was refused to a peer that holds a transport
C17_Witness ==
    /\ last = [op |-> "create-transport", res |-> "invalid direction"]
    /\ \E r \in RoomIds : ~NotIn("s1", r) /\ getPeer(r, "s1").transports # <<>>

\* C18 (as claimed): every open WebRTC transport is in the transport list
\* of some peer record.
C18_OpenTransportsOwned ==
    \A t \in 1..Len(transports) :
        (transports[t].type = "webrtc" /\ ~transports[t].closed) =>
            \E r \in RoomKeys : \E s \in DOMAIN peers[r] :
                Has(peers[r][s].transports, t)

\* C20 (as claimed): a produce request that names a transport the peer
\* does not own, or one created with a direction other than send, is
\* answered with an error and starts no producer.
C20_ProduceNeedsOwnSendTransport ==
    [][\A s \in Socks, rq \in RoomIds, t \in TIds :
          (/\ ~(Owns(s, rq, t) /\ transports[t].direction = "send")
           /\ ProduceBegin(s, rq, t, "video", "cam1", "front"))
          => /\ last'.op = "produce"
             /\ last'.res \in {"peer not found", "transport not found",
                               "error"}
             /\ pending' = pending
             /\ producers' = producers]_vars

\* C19 (as claimed): when a produce request resumes after its socket has
\* disconnected, no entry is added to any room's producer table and no
\* new-producer notification is delivered.
C19_NoRegistrationAfterDisconnect ==
    [][\A s \in Socks :
          (s \notin connected /\ ProduceDone(s))
          => /\ roomProducers' = roomProducers
             /\ recvNew' = recvNew]_vars

\* C21: the new-producer notification of a producer created by `produce`
\* is delivered once to every socket that is in the room at that moment
\* except the producing one, and to no other socket: not to the producing
\* socket, not to a socket that is only in another room.
C21_NewProducerToRoomPeersOnly ==
    [][\A s \in Socks, r \in RoomKeys, pid \in PIds :
          (/\ pending[s].op = "produce"
           /\ pending[s].room = r
           /\ pid = Len(producers) + 1
           /\ ProduceDone(s))
          => \A x \in Socks : \A p \in PIds :
                recvNew'[x][p] =
                   IF p = pid /\ x # s /\ r \in joined[x]
                     THEN recvNew[x][p] + 1
                     ELSE recvNew[x][p]]_vars

\* s1 has produced in r2 while s2 was only in lab and was told nothing,
\* and has produced in lab where s2 was told
C21_Witness ==
    /\ last = ProduceOk
    /\ joined["s2"] = {"lab"}
    /\ \E p, q \in 1..Len(producers) :
          /\ producers[p].origin = "produce" /\ producers[p].room = "r2"
          /\ producers[q].origin = "produce" /\ producers[q].room = "lab"
          /\ recvNew["s2"][p] = 0 /\ recvNew["s1"][p] = 0
          /\ recvNew["s2"][q] = 1 /\ recvNew["s1"][q] = 0

\* C22 (as claimed): the new-producer notification broadcast by `produce`
\* carries the producer id and the kind, label and path submitted in that
\* produce request.
C22_NewProducerCarriesLabelAndPath ==
    [][\A s \in Socks, pid \in PIds :
          (/\ pending[s].op = "produce"
           /\ pid = Len(producers) + 1
           /\ ProduceDone(s))
          => /\ announced'[pid].producerId = pid
             /\ announced'[pid].kind = pending[s].kind
             /\ announced'[pid].label = pending[s].label
             /\ announced'[pid].path = pending[s].path]_vars

\* C23 (as claimed): no request that carries an acknowledgment callback
\* ends with its failure escaping the handler unanswered, also when the
\* caller has not joined the named room or names a transport it does not
\* own.
C23_EveryRequestAnswered ==
    last.op \in {"join", "create-transport", "connect-transport", "produce",
                 "list-producers", "get-producer-info", "consume"}
        => last.res \notin {"uncaught TypeError", "uncaught rejection"}

\* C24: connect-transport naming a transport id that is not in the calling
\* peer's transport list is answered "transport not found" and connects no
\* transport, another peer's included (a caller without a peer record in
\* the named room is answered "peer not found", and connects none either).
C24_ConnectForeignTransportRejected ==
    [][\A s \in Socks, rq \in RoomIds, t \in TIds :
          (/\ \A i \in 1..Len(getPeer(rq, s).transports) :
                  getPeer(rq, s).transports[i] # t
           /\ ConnectTransport(s, rq, t))
          => /\ transports' = transports
             /\ last'.op = "connect-transport"
             /\ last'.res = IF getPeer(rq, s) = NoPeer
                               THEN "peer not found"
                               ELSE "transport not found"]_vars

\* s2, in r2 with its own open transport, has just been refused the open,
\* unconnected transport of s1
C24_Witness ==
    /\ last = [op |-> "connect-transport", res |-> "transport not found"]
    /\ Len(transports) = MaxTransports
    /\ \A t \in 1..Len(transports) :
          ~transports[t].closed /\ ~transports[t].connected
    /\ \E t, u \in 1..Len(transports) :
          Owns("s1", "lab", t) /\ Owns("s2", "r2", u)

\* C25: resume naming a consumer id that is not in the calling peer's
\* consumer list (no such consumer, another peer's consumer, or no peer
\* record for the caller) is a no-op: nothing is raised, no consumer is
\* resumed and no state changes.
C25_ResumeForeignConsumerNoOp ==
    [][\A s \in Socks, c \in CIds :
          (/\ \A r \in RoomKeys :
                  s \in DOMAIN peers[r] =>
                     \A i \in 1..Len(peers[r][s].consumers) :
                        peers[r][s].consumers[i] # c
           /\ Resume(s, c))
          => /\ consumers' = consumers
             /\ last'.res \in {"no peer", "no consumer"}
             /\ <<rooms, peers, roomProducers, publishers, transports,
                   producers, pending, connected, joined>>' =
                <<rooms, peers, roomProducers, publishers, transports,
                  producers, pending, connected, joined>>]_vars

\* s1 has just sent resume for the consumer of s2, which stays paused
C25_Witness ==
    /\ last = [op |-> "resume", res |-> "no consumer"]
    /\ Len(consumers) = 1
    /\ consumers[1].sock = "s2"
    /\ consumers[1].paused
    /\ ~NotIn("s1", "lab")

\* C26 (as claimed): a consume request naming room R yields a consumer
\* only for a producer that is in R's producer table.
C26_ConsumeOnlyFromOwnRoom ==
    [][\A s \in Socks :
          (pending[s].op = "consume" /\ ConsumeDone(s))
          => pending[s].producer \in TableIds(pending[s].room)]_vars

\* C27 (as claimed): no peer's consumer list holds a consumer whose
\* producer has closed or whose transport has closed.
C27_ClosedConsumersUnlisted ==
    \A r \in RoomKeys : \A s \in DOMAIN peers[r] :
        \A i \in 1..Len(peers[r][s].consumers) :
            /\ ~ProducerClosed(consumers[peers[r][s].consumers[i]].producer)
            /\ ~transports[consumers[peers[r][s].consumers[i]].transport].closed

\* C28: after a successful create-transport the new transport is in the
\* requesting peer's transport list; a transport whose close event has
\* fired is in no peer's transport list; and the close of one transport
\* takes no other transport out of any list.
C28_TransportListFollowsLifecycle ==
    [][/\ \A s \in Socks, r \in RoomKeys :
             (/\ pending[s].op = "create-transport"
              /\ pending[s].room = r
              /\ CreateTransportDone(s)
              /\ last'.res = "ok")
             => /\ s \in DOMAIN peers'[r]
                /\ Has(peers'[r][s].transports, Len(transports'))
                /\ ~transports'[Len(transports')].closed
       /\ \A t \in 1..Len(transports') :
             transports'[t].closed =>
                \A r \in RoomKeys : \A s \in DOMAIN peers'[r] :
                    ~Has(peers'[r][s].transports, t)
       /\ \A t \in 1..Len(transports) :
             (transports'[t].closed /\ ~transports[t].closed)
             => \A r \in RoomKeys : \A s \in DOMAIN peers[r] :
                   \A u \in TIds \ {t} :
                      Has(peers[r][s].transports, u)
                         => Has(peers'[r][s].transports, u)]_vars

\* a transport has just closed and left its owner's list while the other
\* transport is still listed
C28_Witness ==
    /\ last = [op |-> "transport-close", res |-> "event"]
    /\ Len(transports) = 2
    /\ \E t, u \in 1..Len(transports) :
          /\ transports[t].closed /\ ~transports[u].closed
          /\ \E s \in Socks : Owns(s, "lab", u)
          /\ \A s \in Socks : ~Owns(s, "lab", t)

\* a handler of connection q runs: any of its requests, the resumption of
\* one that was waiting on the router, or its disconnect
EventOf(q) ==
    \/ \E rq \in RoomKeys : Join(q, rq, Undef, Undef)
    \/ \E rq \in RoomKeys, d \in Directions : CreateTransportBegin(q, rq, d)
    \/ CreateTransportFail(q)
    \/ CreateTransportDone(q)
    \/ \E rq \in RoomKeys, t \in TIds, pl \in Payloads \cup {<<"video", "cam1", "front">>} :
          ProduceBegin(q, rq, t, pl[1], pl[2], pl[3])
    \/ ProduceFail(q)
    \/ ProduceDone(q)
    \/ \E rq \in RoomKeys, t \in TIds, p \in PIds, caps \in Caps :
          ConsumeBegin(q, rq, t, p, caps)
    \/ ConsumeFail(q)
    \/ ConsumeDone(q)
    \/ Disconnect(q)

\* C29: handling any signaling event of connection Q, its disconnect and
\* its failing requests included, leaves the peer record of every other
\* connection P (role, transport, producer and consumer lists) unchanged.
C29_OtherPeerRecordsUntouched ==
    [][\A q \in Socks :
          (peers' # peers /\ EventOf(q))
          => \A r \in RoomKeys : \A P \in DOMAIN peers[r] \ {q} :
                /\ P \in DOMAIN peers'[r]
                /\ peers'[r][P] = peers[r][P]]_vars

\* s2 has just disconnected (its handler threw) while s1 holds a record
\* with a transport and a producer
C29_Witness ==
    /\ last = [op |-> "disconnect", res |-> "ReferenceError"]
    /\ "s2" \notin connected
    /\ "s1" \in connected
    /\ ~NotIn("s1", "lab")
    /\ Len(getPeer("lab", "s1").transports) > 0
    /\ Len(getPeer("lab", "s1").producers) > 0

\* C30: after each run of the sweep no presence table holds an entry older
\* than 30 s, and the sweep removes no entry whose age is at most 30 s,
\* nor changes one; with the clock advancing and the timer firing, an
\* entry that is not refreshed is eventually removed (checked for the
\* timestamps whose expiry the bounded clock can reach).
C30_SweepRemovesExactlyExpired ==
    /\ [][Sweep =>
            \A r \in RoomKeys :
               /\ \A id \in DOMAIN publishers'[r] :
                     now' - publishers'[r][id] <= 30000
               /\ \A id \in DOMAIN publishers[r] :
                     now - publishers[r][id] <= 30000
                        => /\ id \in DOMAIN publishers'[r]
                           /\ publishers'[r][id] = publishers[r][id]]_vars
    /\ \A r \in RoomIds, id \in PubIds :
          \A ts \in {k * TickMs : k \in 0..MaxTicks} :
             ts + 30000 < MaxTicks * TickMs =>
                ((id \in DOMAIN publishers[r] /\ publishers[r][id] = ts)
                   ~> (id \notin DOMAIN publishers[r]
                         \/ publishers[r][id] # ts))

\* the sweep has just run at 40 s: the entry of r2, older than 30 s, is
\* gone, and the entry of lab, exactly 30 s old, is kept
C30_Witness ==
    /\ last = [op |-> "sweep", res |-> "none"]
    /\ now = 40000
    /\ Has(rooms, "r2") /\ DOMAIN publishers["r2"] = {}
    /\ "bot1" \in DOMAIN publishers["lab"]
    /\ publishers["lab"]["bot1"] = 10000

\* C31: a join with role publisher or publisher-bot and a publisher id,
\* and a publisher-keepalive with an id, set that id's last-seen in the
\* named room's presence table to the current time, inserting it when
\* absent, and touch no other entry; a join as viewer or without an id
\* changes no presence table.
C31_TouchUpsertsLastSeen ==
    [][/\ \A rq \in RoomIds, role \in RoleInputs, id \in TouchIds \cup {Undef} :
             (/\ nextObj'[rq]["s1"] = nextObj[rq]["s1"] + 1
              /\ Join("s1", rq, role, id))
             => IF role \in {"publisher", "publisher-bot"} /\ id \in TouchIds
                  THEN /\ DOMAIN publishers'[rq] = DOMAIN publishers[rq] \cup {id}
                       /\ publishers'[rq][id] = now
                       /\ \A j \in DOMAIN publishers[rq] \ {id} :
                             publishers'[rq][j] = publishers[rq][j]
                       /\ \A r \in RoomKeys \ {rq} :
                             publishers'[r] = publishers[r]
                  ELSE publishers' = publishers
       /\ \A rq \in RoomIds, id \in TouchIds :
             (/\ last'.op = "publisher-keepalive"
              /\ PublisherKeepalive("s2", rq, id))
             => /\ DOMAIN publishers'[rq] = DOMAIN publishers[rq] \cup {id}
                /\ publishers'[rq][id] = now
                /\ \A j \in DOMAIN publishers[rq] \ {id} :
                      publishers'[rq][j] = publishers[rq][j]
                /\ \A r \in RoomKeys \ {rq} :
                      publishers'[r] = publishers[r]]_vars

\* s1 has just joined r2 as publisher bot2 at a later time than the
\* keepalive that entered bot1, whose entry kept its older timestamp; a
\* viewer record of s1 in lab left lab's table as it was
C31_Witness ==
    /\ last = [op |-> "join", res |-> "ok"]
    /\ now = 20000
    /\ DOMAIN publishers["r2"] = {"bot1", "bot2"}
    /\ publishers["r2"]["bot2"] = 20000
    /\ publishers["r2"]["bot1"] = 10000
    /\ getPeer("r2", "s1").publisherId = "bot2"
    /\ getPeer("lab", "s1").role = "viewer"
    /\ DOMAIN publishers["lab"] = {}

\* C32: /ingest/create creates its producer, registers it, broadcasts
\* new-producer and sends its ok response only once both the RTP address
\* (tuple) and the RTCP address (rtcpTuple) of its plain transport are
\* known, in whichever order the two became known.
C32_IngestWaitsForBothAddresses ==
    [][(\/ Len(producers') > Len(producers)
        \/ \E r \in RoomKeys : Len(roomProducers'[r]) > Len(roomProducers[r])
        \/ recvNew' # recvNew
        \/ announced' # announced
        \/ (last' # last /\ last' = [op |-> "ingest-create", res |-> "ok"]))
       => /\ ingest.op # "idle"
          /\ ingest.transport \in 1..Len(transports)
          /\ transports[ingest.transport].tuple
          /\ transports[ingest.transport].rtcpTuple
          /\ transports'[ingest.transport].tuple
          /\ transports'[ingest.transport].rtcpTuple]_vars

\* /ingest/create has just answered ok for a producer on a plain transport
\* whose two addresses are known, and s2, in the room, was told of it
C32_Witness ==
    /\ last = [op |-> "ingest-create", res |-> "ok"]
    /\ Len(producers) = 1
    /\ transports[producers[1].transport].tuple
    /\ transports[producers[1].transport].rtcpTuple
    /\ "s2" \in Members("lab") /\ recvNew["s2"][1] = 1

\* C33: a successful /ingest/create adds exactly one record to the named
\* room's producer table (kind video, the requested label and path, no
\* owning peer), leaves the earlier records and the other rooms alone, and
\* delivers one new-producer notification for it, carrying that label and
\* path, to every socket that is in the room at that moment and to no other.
C33_IngestAddsOneProducerAndTellsRoom ==
    [][\A r \in RoomKeys, k \in 0..MaxProducers, pid \in PIds :
          (/\ ingest.op = "produce"
           /\ ingest.room = r
           /\ Len(roomProducers[r]) = k
           /\ pid = Len(producers) + 1
           /\ IngestDone)
          => /\ Len(producers') = pid
             /\ producers'[pid].kind = "video"
             /\ producers'[pid].sock = NoSock
             /\ Len(roomProducers'[r]) = k + 1
             /\ SubSeq(roomProducers'[r], 1, k) = roomProducers[r]
             /\ roomProducers'[r][k + 1].id = pid
             /\ roomProducers'[r][k + 1].meta.kind = "video"
             /\ roomProducers'[r][k + 1].meta.ownerSocketId = Undef
             /\ ingest.label # Undef =>
                   /\ roomProducers'[r][k + 1].meta.label = ingest.label
                   /\ roomProducers'[r][k + 1].meta.path = ingest.path
                   /\ announced'[pid].label = ingest.label
                   /\ announced'[pid].path = ingest.path
             /\ announced'[pid].producerId = pid
             /\ announced'[pid].kind = "video"
             /\ \A q \in RoomKeys \ {r} : roomProducers'[q] = roomProducers[q]
             /\ \A x \in Socks : \A p \in PIds :
                   recvNew'[x][p] =
                      IF p = pid /\ r \in joined[x]
                        THEN recvNew[x][p] + 1
                        ELSE recvNew[x][p]
             /\ last' = [op |-> "ingest-create", res |-> "ok"]]_vars

\* two ingests have succeeded: one into lab with label gate, heard by s2,
\* and one into r2, which s2 (only in lab) did not hear
C33_Witness ==
    /\ last = [op |-> "ingest-create", res |-> "ok"]
    /\ joined["s2"] = {"lab"}
    /\ \E p, q \in 1..Len(producers) :
          /\ producers[p].origin = "ingest" /\ producers[p].room = "lab"
          /\ producers[q].origin = "ingest" /\ producers[q].room = "r2"
          /\ recvNew["s2"][p] = 1 /\ recvNew["s2"][q] = 0
          /\ announced[p].label = "gate" /\ announced[p].path = "rtsp/gate"

C35_ProducerRecordHasOwnerRecord ==
    \A r \in RoomKeys : \A i \in 1..Len(roomProducers[r]) :
        roomProducers[r][i].meta.ownerSocketId \in Socks =>
            /\ roomProducers[r][i].meta.ownerSocketId \in DOMAIN peers[r]
            /\ Has(peers[r][roomProducers[r][i].meta.ownerSocketId].producers,
                   roomProducers[r][i].id)

\* C36 (as claimed): a second join by a connection to a room it is already
\* in keeps every open transport, producer and consumer of its peer
\* record in the record.
C36_RejoinKeepsOwnedObjects ==
    [][\A s \in Socks, r \in RoomIds :
          (/\ s \in DOMAIN peers[r]
           /\ nextObj'[r][s] = nextObj[r][s] + 1
           /\ Join(s, r, Undef, Undef))
          => /\ \A t \in TIds :
                   (Has(peers[r][s].transports, t) /\ ~transports[t].closed)
                      => Has(peers'[r][s].transports, t)
             /\ \A p \in PIds :
                   (Has(peers[r][s].producers, p) /\ ~ProducerClosed(p))
                      => Has(peers'[r][s].producers, p)
             /\ \A c \in CIds :
                   (Has(peers[r][s].consumers, c) /\ ~consumers[c].closed)
                      => Has(peers'[r][s].consumers, c)]_vars

\* C37 (as claimed): connect-transport naming an open, not yet connected
\* transport of the calling peer's transport list is passed to the routing
\* capability and acknowledged ok, whichever room the peer created the
\* transport in, also when the request carries no room id.
C37_ConnectOwnTransportWithoutRoomId ==
    [][\A s \in Socks, r \in RoomIds, t \in TIds :
          (/\ Owns(s, r, t)
           /\ ~transports[t].closed
           /\ ~transports[t].connected
           /\ ConnectTransport(s, Undef, t))
          => /\ last' = [op |-> "connect-transport", res |-> "ok"]
             /\ transports'[t].connected]_vars

\* C38 (as claimed): a socket that has received producer-closed for a
\* producer id was told of that producer before: by a join snapshot, by a
\* new-producer notification or, being its owner, by the produce
\* acknowledgment.
C38_ClosedOnlyAfterTold ==
    \A s \in Socks : \A p \in 1..Len(producers) :
        recvClosed[s][p] > 0 => (Told(s, p) >= 1 \/ producers[p].sock = s)

\* C39 (as claimed): for every entry of a presence table, at every time,
\* the publisher listing hides the entry exactly when a sweep running at
\* that time would remove it, also at an age of exactly PUBLISHER_TTL_MS.
C39_ListingAndSweepAgree ==
    \A r \in RoomKeys : \A id \in DOMAIN publishers[r] :
        ~ListingShows(publishers[r][id]) <=> SweepRemoves(publishers[r][id])

\* C40 (as claimed): in the viewer page, for every producer id, the
\* consume requests in flight and the consumers created for it number at
\* most one at any time.
C40_OneConsumePerProducer ==
    \A p \in PIds :
        Cardinality({k \in 1..MaxTasks :
                        viewer.tasks[k].at = "consume"
                           /\ viewer.tasks[k].pid = p})
           + viewer.made[p] <= 1

====
